---- MODULE Spec2Model ----
(***************************************************************************)
(* A model of app.py, the Bank Nifty dashboard: one Streamlit script whose *)
(* function fetch_and_process_data normalises the downloaded 5-minute bars,*)
(* adds EMA20 and StochRSI, labels every bar with a trend and a signal and *)
(* returns the latest day, newest bar first; the script then renders it.   *)
(*                                                                         *)
(* Numbers.  A price is a whole number >= 0, or NaN.  An indicator value   *)
(* (EMA20, StochRSI) is an exact fraction [n, d] with d > 0, or the        *)
(* fraction NaNq whose d is 0.  A comparison with NaN is FALSE, as in the  *)
(* floating point the script runs on.  A timestamp is a number of minutes: *)
(* day * 1440 + minute of the day.                                         *)
(***************************************************************************)
EXTENDS Integers, Sequences, FiniteSets, TLC

VARIABLES
    pc,            \* where the script run is ("idle": no run in progress)
    raw,           \* what yf.download returned (line 32)
    df,            \* the frame's index and downloaded columns
    rsi,           \* the 14-period RSI of Close inside StochRSIIndicator
    EMA20,         \* df['EMA20']
    StochRSI,      \* df['StochRSI']
    trends,        \* the list trends (line 75)
    Trend,         \* df['Trend']
    signals,       \* the list signals (line 90)
    remarks,       \* the list remarks (line 90)
    enriched,      \* the frame once Signal and Remark are set (line 123)
    result,        \* the frame the call at line 139 gave the script
    returned,      \* fetch_and_process_data returned in this run
    raised,        \* an exception left fetch_and_process_data in this run
    latest,        \* <<df.iloc[0]>> once line 145 has run, else <<>>
    shown,         \* the elements rendered in this run
    has_last_refresh, \* "last_refresh" in st.session_state
    elapsed,       \* time.time() - st.session_state.last_refresh, in seconds
    cache,         \* the st.cache_data entry: <<>> or <<value>>
    cache_age,     \* seconds since the entry was stored
    interactions   \* widget interactions since the page was loaded

vars == <<pc, raw, df, rsi, EMA20, StochRSI, trends, Trend, signals, remarks,
          enriched, result, returned, raised, latest, shown,
          has_last_refresh, elapsed, cache, cache_age, interactions>>

pipeVars == <<raw, df, rsi, EMA20, StochRSI, trends, Trend, signals, remarks,
              enriched, result, returned, raised>>
uiVars == <<latest, shown>>
sessionVars == <<has_last_refresh, elapsed, cache, cache_age, interactions>>

(***************************************************************************)
(* Bounds of the model.                                                    *)
(***************************************************************************)
MaxRawBars == 3      \* rows of a download
MaxBars == 3         \* rows of a normalised frame drawn directly
MaxSignalBars == 2   \* rows of a frame drawn for the signal loop
MaxVarying == 3      \* RSI values that vary after a constant run
MaxWait == 2         \* seconds observed after the refresh interval has passed
MaxInteractions == 1 \* widget interactions of a session

(***************************************************************************)
(* Program constants.                                                      *)
(***************************************************************************)
REFRESH_SEC == 15
EMA_WINDOW == 20
STOCH_WINDOW == 14
EMA_NEAR == 100
IST_OFFSET == 330
SESSION_OPEN == 555
SESSION_CLOSE == 930
DAY == 1440

NaN == -1
NonNumeric == -2
NaNq == [n |-> 0, d |-> 0]

Q(a, b) == [n |-> a, d |-> b]
IsNaNq(q) == q.d = 0

\* float comparisons: FALSE as soon as one side is NaN
Gt(a, b) == a # NaN /\ b # NaN /\ a > b
Lt(a, b) == a # NaN /\ b # NaN /\ a < b
QLt(p, q) == p.d > 0 /\ q.d > 0 /\ p.n * q.d < q.n * p.d
QGt(p, q) == QLt(q, p)
QLe(p, q) == p.d > 0 /\ q.d > 0 /\ p.n * q.d <= q.n * p.d
QGe(p, q) == QLe(q, p)

DateOf(ts) == ts \div DAY
TimeOf(ts) == ts % DAY

Abs(x) == IF x < 0 THEN -x ELSE x
RECURSIVE GCD(_, _)
GCD(a, b) == IF b = 0 THEN a ELSE GCD(b, a % b)
\* the fraction a/b (a >= 0, b > 0) in lowest terms
Lowest(a, b) == LET g == GCD(a, b) IN Q(a \div g, b \div g)
SetMax(S) == CHOOSE x \in S : \A y \in S : y <= x
SetMin(S) == CHOOSE x \in S : \A y \in S : x <= y

(***************************************************************************)
(* Bar Normalizer, lines 43-59.                                            *)
(***************************************************************************)
\* line 49: UTC -> IST
ToIST(row) == [row EXCEPT !.ts = @ + IST_OFFSET]

\* line 53: between_time("09:15", "15:30") keeps both end points
InSession(row) == SESSION_OPEN <= TimeOf(row.ts) /\ TimeOf(row.ts) <= SESSION_CLOSE

RECURSIVE between_time(_)
between_time(s) ==
    IF s = <<>> THEN <<>>
    ELSE IF InSession(Head(s)) THEN <<Head(s)>> \o between_time(Tail(s))
         ELSE between_time(Tail(s))

\* line 57: pd.to_numeric(errors='coerce')
to_numeric(c) == IF c < 0 THEN NaN ELSE c

Coerce(row) == [row EXCEPT !.Open = to_numeric(@), !.High = to_numeric(@),
                           !.Low = to_numeric(@), !.Close = to_numeric(@)]

LastKnown_zero(s, col, i) == IF s[i][col] # NaN THEN s[i][col] ELSE 0

\* line 59: the last value of column col that is not NaN, at or before row i
RECURSIVE LastKnown(_, _, _)
LastKnown(s, col, i) ==
    IF s[i][col] # NaN THEN s[i][col]
    ELSE IF i = 1 THEN NaN
    ELSE LastKnown(s, col, i - 1)

ffill(s) ==
    [i \in 1..Len(s) |->
        [s[i] EXCEPT !.Open = LastKnown(s, "Open", i),
                     !.High = LastKnown(s, "High", i),
                     !.Low = LastKnown(s, "Low", i),
                     !.Close = LastKnown(s, "Close", i)]]

Coerced(rawRows) ==
    LET ist == [i \in 1..Len(rawRows) |-> ToIST(rawRows[i])]
        kept == between_time(ist)
    IN  [i \in 1..Len(kept) |-> Coerce(kept[i])]

Normalized(rawRows) == ffill(Coerced(rawRows))

(***************************************************************************)
(* Indicator Engine, lines 61-72.  EMAIndicator and StochRSIIndicator are  *)
(* the ta library's; what they compute is written out here.                *)
(***************************************************************************)
\* series.ewm(span=window, adjust=False).mean(): seeded with the first close,
\* then (window - 1)/(window + 1) of the last mean plus 2/(window + 1) of the
\* close, kept in lowest terms
RECURSIVE EmaAt(_, _, _)
EmaAt(close, window, i) ==
    LET prev == IF i = 1 THEN NaNq ELSE EmaAt(close, window, i - 1)
    IN  IF close[i] = NaN THEN prev
        ELSE IF IsNaNq(prev) THEN Q(close[i], 1)
        ELSE Lowest((window - 1) * prev.n + 2 * close[i] * prev.d, (window + 1) * prev.d)

EMAIndicator(close, window, fillna) ==
    [i \in 1..Len(close) |->
        IF ~fillna /\ i < window THEN NaNq ELSE EmaAt(close, window, i)]

\* line 62
ema_indicator(frame) ==
    EMAIndicator([i \in 1..Len(frame) |-> frame[i].Close], EMA_WINDOW, TRUE)

\* RSIIndicator(close, fillna=True).rsi(): 100 while Close has never fallen
\* (the average loss is 0), 0 once it has fallen and never risen, and a value
\* strictly between once it has done both; that value is left open in RsiMid
RsiMid == {30, 50, 70}
Rose(close, i) == \E j \in 2..i : Gt(close[j], close[j - 1])
Fell(close, i) == \E j \in 2..i : Lt(close[j], close[j - 1])
RsiSeries(close) ==
    LET open == {i \in 1..Len(close) : Rose(close, i) /\ Fell(close, i)}
    IN  {[i \in 1..Len(close) |->
            IF i \in open THEN m[i]
            ELSE IF Fell(close, i) THEN 0 ELSE 100] : m \in [open -> RsiMid]}

\* (rsi - rolling min) / (rolling max - rolling min) over window rows;
\* undefined before row window, and 0/0 where the window is flat
StochRaw(r, window, i) ==
    IF i < window THEN NaNq
    ELSE LET win == {r[j] : j \in (i - window + 1)..i}
             lo == SetMin(win)
             hi == SetMax(win)
         IN  IF hi = lo THEN NaNq ELSE Q(r[i] - lo, hi - lo)

\* IndicatorMixin._check_fillna: ffill(), then fillna(0)
RECURSIVE FilledAt(_, _)
FilledAt(s, i) ==
    IF ~IsNaNq(s[i]) THEN s[i]
    ELSE IF i = 1 THEN Q(0, 1)
    ELSE FilledAt(s, i - 1)

StochRSIIndicator(r, window, fillna) ==
    LET rawSeries == [i \in 1..Len(r) |-> StochRaw(r, window, i)]
    IN  IF fillna THEN [i \in 1..Len(r) |-> FilledAt(rawSeries, i)]
        ELSE rawSeries

stochrsi_nofill(r) == StochRSIIndicator(r, STOCH_WINDOW, FALSE)

\* lines 65-72
stochrsi(r) == StochRSIIndicator(r, STOCH_WINDOW, TRUE)

(***************************************************************************)
(* Trend Classifier, lines 75-87.                                          *)
(***************************************************************************)
TrendLabel_prev2(frame, i) ==
    LET k == IF i > 2 THEN i - 2 ELSE i - 1
    IN  IF Gt(frame[i].High, frame[k].High) /\ Gt(frame[i].Low, frame[k].Low) THEN "UP"
        ELSE IF Lt(frame[i].High, frame[k].High) /\ Lt(frame[i].Low, frame[k].Low) THEN "DOWN"
        ELSE "Sideways"

\* lines 77-85, for the row at position i (position 1 is the code's row 0)
TrendLabel(frame, i) ==
    LET ch == frame[i].High
        ph == frame[i - 1].High
        cl == frame[i].Low
        pl == frame[i - 1].Low
    IN  IF Gt(ch, ph) /\ Gt(cl, pl) THEN "UP"
        ELSE IF Lt(ch, ph) /\ Lt(cl, pl) THEN "DOWN"
        ELSE "Sideways"

(***************************************************************************)
(* Signal Classifier, lines 90-123.                                        *)
(***************************************************************************)
\* abs(close - ema) > 100 and abs(close - ema) <= 100
Far(close, ema) ==
    close # NaN /\ ema.d > 0 /\ Abs(close * ema.d - ema.n) > EMA_NEAR * ema.d
Near(close, ema) ==
    close # NaN /\ ema.d > 0 /\ Abs(close * ema.d - ema.n) <= EMA_NEAR * ema.d

\* "; ".join(r): the notes with the separator between them
RECURSIVE Join(_)
Join(r) ==
    IF Len(r) <= 1 THEN r
    ELSE <<Head(r), "; ">> \o Join(Tail(r))

Classify_noEmaTest(close, ema, stochv, trend) ==
    IF trend = "UP" /\ QLt(stochv, Q(3, 10)) THEN
        [signal |-> "CE BUY", remark |-> <<"HH-HL + EMA near + StochRSI < 0.3">>]
    ELSE IF trend = "DOWN" /\ QGt(stochv, Q(7, 10)) THEN
        [signal |-> "PE BUY", remark |-> <<"LH-LL + EMA near + StochRSI > 0.7">>]
    ELSE [signal |-> "NO TRADE", remark |-> <<>>]

Classify_strictNotes(close, ema, stochv, trend) ==
    LET r0 == IF Far(close, ema) THEN <<"Price far from EMA20">> ELSE <<>>
    IN  IF trend = "UP" /\ Near(close, ema) /\ QLt(stochv, Q(3, 10)) THEN
            [signal |-> "CE BUY", remark |-> <<"HH-HL + EMA near + StochRSI < 0.3">>]
        ELSE IF trend = "DOWN" /\ Near(close, ema) /\ QGt(stochv, Q(7, 10)) THEN
            [signal |-> "PE BUY", remark |-> <<"LH-LL + EMA near + StochRSI > 0.7">>]
        ELSE
            LET r1 == IF trend = "Sideways" THEN Append(r0, "Market sideways") ELSE r0
                r2 == IF trend = "UP" /\ QGt(stochv, Q(3, 10))
                      THEN Append(r1, "StochRSI not low for CE") ELSE r1
                r3 == IF trend = "DOWN" /\ QLt(stochv, Q(7, 10))
                      THEN Append(r2, "StochRSI not high for PE") ELSE r2
            IN  [signal |-> "NO TRADE", remark |-> Join(r3)]

\* lines 93-120, one pass of the loop body
Classify(close, ema, stochv, trend) ==
    LET r0 == IF Far(close, ema) THEN <<"Price far from EMA20">> ELSE <<>>
    IN  IF trend = "UP" /\ Near(close, ema) /\ QLt(stochv, Q(3, 10)) THEN
            [signal |-> "CE BUY", remark |-> <<"HH-HL + EMA near + StochRSI < 0.3">>]
        ELSE IF trend = "DOWN" /\ Near(close, ema) /\ QGt(stochv, Q(7, 10)) THEN
            [signal |-> "PE BUY", remark |-> <<"LH-LL + EMA near + StochRSI > 0.7">>]
        ELSE
            LET r1 == IF trend = "Sideways" THEN Append(r0, "Market sideways") ELSE r0
                r2 == IF trend = "UP" /\ QGe(stochv, Q(3, 10))
                      THEN Append(r1, "StochRSI not low for CE") ELSE r1
                r3 == IF trend = "DOWN" /\ QLe(stochv, Q(7, 10))
                      THEN Append(r2, "StochRSI not high for PE") ELSE r2
            IN  [signal |-> "NO TRADE", remark |-> Join(r3)]

(***************************************************************************)
(* Session Selector, lines 125-132.                                        *)
(***************************************************************************)
\* Series.round(2)
Round2(q) == IF IsNaNq(q) THEN q ELSE Q((200 * q.n + q.d) \div (2 * q.d), 100)
RoundPrice(p) == IF p = NaN THEN NaN ELSE Round2(Q(p, 1)).n \div 100

RoundRow(row) ==
    [row EXCEPT !.Close = RoundPrice(@), !.High = RoundPrice(@), !.Low = RoundPrice(@),
                !.Open = RoundPrice(@), !.EMA20 = Round2(@)]
round2(frame) == [i \in 1..Len(frame) |-> RoundRow(frame[i])]

\* line 125
latest_day(frame) == SetMax({DateOf(frame[i].ts) : i \in 1..Len(frame)})

RECURSIVE OnDay(_, _)
OnDay(frame, day) ==
    IF frame = <<>> THEN <<>>
    ELSE IF DateOf(Head(frame).ts) = day THEN <<Head(frame)>> \o OnDay(Tail(frame), day)
         ELSE OnDay(Tail(frame), day)

\* sort_index(ascending=False): insertion of each row before the first older one
RECURSIVE InsertDesc(_, _)
InsertDesc(row, sorted) ==
    IF sorted = <<>> THEN <<row>>
    ELSE IF row.ts > Head(sorted).ts THEN <<row>> \o sorted
         ELSE <<Head(sorted)>> \o InsertDesc(row, Tail(sorted))

RECURSIVE sort_index_desc(_)
sort_index_desc(frame) ==
    IF frame = <<>> THEN <<>>
    ELSE InsertDesc(Head(frame), sort_index_desc(Tail(frame)))

first_day(frame) == SetMin({DateOf(frame[i].ts) : i \in 1..Len(frame)})
SelectSession_first(frame) ==
    sort_index_desc(round2(OnDay(frame, first_day(frame))))

\* lines 125-132
SelectSession(frame) ==
    sort_index_desc(round2(OnDay(frame, latest_day(frame))))

(***************************************************************************)
(* The script run.                                                         *)
(***************************************************************************)
Ended == {"stopped", "done", "crashed"}

Blank ==
    /\ raw = <<>> /\ df = <<>> /\ rsi = <<>> /\ EMA20 = <<>> /\ StochRSI = <<>>
    /\ trends = <<>> /\ Trend = <<>> /\ signals = <<>> /\ remarks = <<>>
    /\ enriched = <<>> /\ result = <<>> /\ returned = FALSE /\ raised = FALSE
    /\ latest = <<>> /\ shown = {}

NewSession ==
    /\ has_last_refresh = FALSE /\ elapsed = 0 /\ cache = <<>> /\ cache_age = 0
    /\ interactions = 0

\* lines 20-21; a run starts with nothing computed and nothing rendered
ScriptTop ==
    /\ pc = "top"
    /\ raw' = <<>> /\ df' = <<>> /\ rsi' = <<>> /\ EMA20' = <<>> /\ StochRSI' = <<>>
    /\ trends' = <<>> /\ Trend' = <<>> /\ signals' = <<>> /\ remarks' = <<>>
    /\ enriched' = <<>> /\ result' = <<>> /\ returned' = FALSE /\ raised' = FALSE
    /\ latest' = <<>> /\ shown' = {}
    /\ has_last_refresh' = TRUE
    /\ elapsed' = IF has_last_refresh THEN elapsed ELSE 0
    /\ pc' = "check"
    /\ UNCHANGED <<cache, cache_age, interactions>>

\* lines 23-25
RefreshCheck ==
    /\ pc = "check"
    /\ IF elapsed > REFRESH_SEC
       THEN elapsed' = 0 /\ pc' = "top"
       ELSE elapsed' = elapsed /\ pc' = "call"
    /\ UNCHANGED <<pipeVars, uiVars, has_last_refresh, cache, cache_age, interactions>>

\* lines 137-139 and 30: the title, then the call through st.cache_data(ttl)
CallFetch ==
    /\ pc = "call"
    /\ shown' = shown \cup {"title"}
    /\ IF cache # <<>> /\ cache_age < REFRESH_SEC
       THEN result' = cache[1] /\ returned' = TRUE /\ pc' = "ui_empty"
       ELSE result' = result /\ returned' = returned /\ pc' = "download"
    /\ UNCHANGED <<raw, df, rsi, EMA20, StochRSI, trends, Trend, signals, remarks,
                   enriched, raised, latest, sessionVars>>

\* lines 32-41, r being what yf.download returns
Download(r) ==
    /\ pc = "download"
    /\ raw' = r
    /\ IF r = <<>>
       THEN /\ result' = <<>> /\ returned' = TRUE
            /\ cache' = <<result'>> /\ cache_age' = 0
            /\ pc' = "ui_empty"
       ELSE /\ result' = result /\ returned' = returned
            /\ cache' = cache /\ cache_age' = cache_age
            /\ pc' = "normalize"
    /\ UNCHANGED <<df, rsi, EMA20, StochRSI, trends, Trend, signals, remarks,
                   enriched, raised, uiVars, has_last_refresh, elapsed, interactions>>

\* lines 43-59
Normalize ==
    /\ pc = "normalize"
    /\ df' = Normalized(raw)
    /\ pc' = "indicators"
    /\ UNCHANGED <<raw, rsi, EMA20, StochRSI, trends, Trend, signals, remarks,
                   enriched, result, returned, raised, uiVars, sessionVars>>

\* lines 61-72
Indicators ==
    /\ pc = "indicators"
    /\ EMA20' = ema_indicator(df)
    /\ \E r \in RsiSeries([i \in 1..Len(df) |-> df[i].Close]) :
        /\ rsi' = r
        /\ StochRSI' = stochrsi(r)
    /\ pc' = "trend_init"
    /\ UNCHANGED <<raw, df, trends, Trend, signals, remarks,
                   enriched, result, returned, raised, uiVars, sessionVars>>

\* line 75
TrendInit ==
    /\ pc = "trend_init"
    /\ trends' = <<"NA">>
    /\ pc' = "trend_loop"
    /\ UNCHANGED <<raw, df, rsi, EMA20, StochRSI, Trend, signals, remarks,
                   enriched, result, returned, raised, uiVars, sessionVars>>

\* lines 76-85: one pass of the loop, for i = len(trends)
TrendStep ==
    /\ pc = "trend_loop"
    /\ Len(trends) < Len(df)
    /\ trends' = Append(trends, TrendLabel(df, Len(trends) + 1))
    /\ UNCHANGED <<pc, raw, df, rsi, EMA20, StochRSI, Trend, signals, remarks,
                   enriched, result, returned, raised, uiVars, sessionVars>>

\* line 87: a frame of no rows cannot take the one label in trends, and no
\* frame indexed by timestamps leaves the assignment: the call ends in an
\* exception (pandas' length check, or .date at line 125 on the integer
\* index the assignment gave the frame)
TrendAssign ==
    /\ pc = "trend_loop"
    /\ Len(trends) >= Len(df)
    /\ IF Len(trends) = Len(df)
       THEN Trend' = trends /\ raised' = raised /\ pc' = "signal_init"
       ELSE Trend' = Trend /\ raised' = TRUE /\ pc' = "crashed"
    /\ UNCHANGED <<raw, df, rsi, EMA20, StochRSI, trends, signals, remarks,
                   enriched, result, returned, uiVars, sessionVars>>

\* line 90
SignalInit ==
    /\ pc = "signal_init"
    /\ signals' = <<>>
    /\ remarks' = <<>>
    /\ pc' = "signal_loop"
    /\ UNCHANGED <<raw, df, rsi, EMA20, StochRSI, trends, Trend,
                   enriched, result, returned, raised, uiVars, sessionVars>>

\* lines 92-120: one pass of the loop, for the next row of df.iterrows()
SignalStep ==
    /\ pc = "signal_loop"
    /\ Len(signals) < Len(df)
    /\ LET i == Len(signals) + 1
           c == Classify(df[i].Close, EMA20[i], StochRSI[i], Trend[i])
       IN  /\ signals' = Append(signals, c.signal)
           /\ remarks' = Append(remarks, c.remark)
    /\ UNCHANGED <<pc, raw, df, rsi, EMA20, StochRSI, trends, Trend,
                   enriched, result, returned, raised, uiVars, sessionVars>>

EnrichedFrame ==
    [i \in 1..Len(df) |->
        [ts |-> df[i].ts, Open |-> df[i].Open, High |-> df[i].High,
         Low |-> df[i].Low, Close |-> df[i].Close, Volume |-> df[i].Volume,
         EMA20 |-> EMA20[i], StochRSI |-> StochRSI[i], Trend |-> Trend[i],
         Signal |-> signals[i], Remark |-> remarks[i]]]

\* lines 122-123
SignalAssign ==
    /\ pc = "signal_loop"
    /\ Len(signals) = Len(df)
    /\ enriched' = EnrichedFrame
    /\ pc' = "select"
    /\ UNCHANGED <<raw, df, rsi, EMA20, StochRSI, trends, Trend, signals, remarks,
                   result, returned, raised, uiVars, sessionVars>>

\* lines 125-132, and the entry st.cache_data keeps of the value returned
Select ==
    /\ pc = "select"
    /\ result' = SelectSession(enriched)
    /\ returned' = TRUE
    /\ cache' = <<result'>>
    /\ cache_age' = 0
    /\ pc' = "ui_empty"
    /\ UNCHANGED <<raw, df, rsi, EMA20, StochRSI, trends, Trend, signals, remarks,
                   enriched, raised, uiVars, has_last_refresh, elapsed, interactions>>

(***************************************************************************)
(* UI, lines 141-182.                                                      *)
(***************************************************************************)
LatestRow_last(frame) == frame[Len(frame)]

\* line 145: df.iloc[0]
LatestRow(frame) == frame[1]

\* line 159
AlertSignals == {"CE BUY", "PE BUY"}

\* lines 141-143
UiEmpty ==
    /\ pc = "ui_empty"
    /\ IF result = <<>>
       THEN shown' = shown \cup {"error"} /\ pc' = "stopped"
       ELSE shown' = shown /\ pc' = "ui_latest"
    /\ UNCHANGED <<pipeVars, latest, sessionVars>>

\* lines 145-160
UiLatest ==
    /\ pc = "ui_latest"
    /\ latest' = <<LatestRow(result)>>
    /\ shown' = shown \cup {"metrics", "info", "remark"}
                      \cup (IF latest'[1].Signal \in AlertSignals THEN {"alert"} ELSE {})
    /\ pc' = "ui_table"
    /\ UNCHANGED <<pipeVars, sessionVars>>

\* lines 162-182
UiTable ==
    /\ pc = "ui_table"
    /\ shown' = shown \cup {"subheader", "table", "download", "caption"}
    /\ pc' = "done"
    /\ UNCHANGED <<pipeVars, latest, sessionVars>>

(***************************************************************************)
(* What happens around a run.  Streamlit runs the script when the page is  *)
(* loaded, when a widget is used and when the script asks for a rerun;     *)
(* nothing in app.py starts a run once a run has ended.                    *)
(***************************************************************************)
\* a second passes: between runs, or while the download is waited for
Tick ==
    /\ pc \in Ended \cup {"download"}
    /\ elapsed < REFRESH_SEC + MaxWait
    /\ elapsed' = elapsed + 1
    /\ cache_age' = IF cache # <<>> /\ cache_age < REFRESH_SEC
                    THEN cache_age + 1 ELSE cache_age
    /\ UNCHANGED <<pc, pipeVars, uiVars, has_last_refresh, cache, interactions>>

\* the download button (line 175) is clicked: Streamlit runs the script again
UserInteract ==
    /\ pc = "done"
    /\ "download" \in shown
    /\ interactions < MaxInteractions
    /\ interactions' = interactions + 1
    /\ pc' = "top"
    /\ UNCHANGED <<pipeVars, uiVars, has_last_refresh, elapsed, cache, cache_age>>

(***************************************************************************)
(* Inputs.                                                                 *)
(***************************************************************************)
\* UTC times of downloaded rows: 03:40 and 03:45 of one day, 03:45, 10:00 and
\* 10:05 of the next (09:10, 09:15; 09:15, 15:30, 15:35 in IST)
RawTimes == {220, 225, DAY + 225, DAY + 600, DAY + 605}
RawHighs == {NonNumeric, 101, 102}
RawLows == {NaN, 91, 92}
IsAbsent(c) == c = NaN \/ c = NonNumeric

\* a row whose High is unusable has an unusable Open, and its Close goes
\* with its Low
RawRow(t, h, l) ==
    [ts |-> t,
     Open |-> IF IsAbsent(h) THEN NonNumeric ELSE 1000,
     High |-> h, Low |-> l,
     Close |-> IF IsAbsent(l) THEN NaN ELSE 1000,
     Volume |-> 500]

RECURSIVE InOrder(_)
InOrder(S) == IF S = {} THEN <<>> ELSE <<SetMin(S)>> \o InOrder(S \ {SetMin(S)})

\* the rows at the times T, in ascending order, with the highs h and lows l
RawInput(T, h, l) ==
    LET times == InOrder(T)
    IN  [i \in 1..Len(times) |-> RawRow(times[i], h[i], l[i])]

SampleRow(t, h, l) ==
    [ts |-> t, Open |-> 1000, High |-> h, Low |-> l, Close |-> 1000, Volume |-> 500]

\* three downloads: nothing, one row outside the session, two rows inside it
SampleInputs ==
    {<<>>, <<SampleRow(220, 101, 91)>>,
     <<SampleRow(225, 101, 91), SampleRow(600, 102, 92)>>}

\* a download of up to MaxRawBars rows in ascending time order
DownloadAny ==
    /\ pc = "download"
    /\ \E T \in SUBSET RawTimes :
        /\ Cardinality(T) <= MaxRawBars
        /\ \E h \in [1..Cardinality(T) -> RawHighs],
              l \in [1..Cardinality(T) -> RawLows] :
            Download(RawInput(T, h, l))

DownloadSample == pc = "download" /\ \E r \in SampleInputs : Download(r)

\* the time of the i-th bar of a session, five minutes apart from 09:15
BarTime(i) == SESSION_OPEN + 5 * (i - 1)

\* a normalised frame with the highs h and the lows l before the fill
TrendCells == {NaN, 1, 2, 3}
TrendFrame(h, l) ==
    ffill([i \in 1..Len(h) |->
             [ts |-> BarTime(i), Open |-> 1000, High |-> h[i], Low |-> l[i],
              Close |-> 1000, Volume |-> 500]])

\* frames at line 90, row by row: the close with an EMA20 at, inside and
\* outside the distance of 100, a StochRSI at and beside 0.3 and 0.7, a trend
SignalCloseEma == {<<NaN, NaNq>>, <<1000, Q(899, 1)>>, <<1000, Q(900, 1)>>,
                   <<1000, Q(1100, 1)>>, <<1000, Q(1101, 1)>>}
SignalStoch == {Q(29, 100), Q(3, 10), Q(7, 10), Q(71, 100)}
SignalTrends == {"UP", "DOWN", "Sideways"}
\* ffill leaves NaN only above the first number of a column
PrefixNaN(ce) == \A i \in 2..Len(ce) : ce[i][1] = NaN => ce[i - 1][1] = NaN
\* highs and lows that give the row its trend
RECURSIVE LevelAt(_, _)
LevelAt(t, i) ==
    IF i = 1 THEN 100
    ELSE LevelAt(t, i - 1) + (IF t[i] = "UP" THEN 1 ELSE IF t[i] = "DOWN" THEN -1 ELSE 0)

\* the download a normalised frame came from
RawOf(frame) == [i \in 1..Len(frame) |-> [frame[i] EXCEPT !.ts = @ - IST_OFFSET]]

\* frames of a constant close for up to STOCH_WINDOW rows, then up to
\* MaxVarying rows whose close moves
StochCloses == {990, 1000, 1010}
StochFrames ==
    UNION {{[i \in 1..(h + Len(t)) |->
               [ts |-> BarTime(i), Open |-> 1000, High |-> 1010, Low |-> 990,
                Close |-> IF i <= h THEN 1000 ELSE t[i - h], Volume |-> 500]] :
              t \in UNION {[1..k -> StochCloses] : k \in 0..MaxVarying}} :
           h \in 0..STOCH_WINDOW}

NoRun ==
    /\ trends = <<>> /\ Trend = <<>> /\ signals = <<>> /\ remarks = <<>>
    /\ enriched = <<>> /\ result = <<>> /\ returned = FALSE /\ raised = FALSE
    /\ latest = <<>> /\ shown = {"title"}
    /\ has_last_refresh = TRUE /\ elapsed = 0 /\ cache = <<>> /\ cache_age = 0
    /\ interactions = 0

InitPipeline ==
    /\ pc = "top"
    /\ Blank
    /\ NewSession

\* at line 61, with a frame of StochFrames
InitStoch ==
    /\ pc = "indicators"
    /\ df \in StochFrames \ {<<>>}
    /\ raw = RawOf(df)
    /\ rsi = <<>> /\ EMA20 = <<>> /\ StochRSI = <<>>
    /\ NoRun

\* at line 75, with a frame of up to MaxBars rows, whatever its highs and lows
InitTrend ==
    /\ pc = "trend_init"
    /\ \E n \in 0..MaxBars :
        \E h \in [1..n -> TrendCells], l \in [1..n -> TrendCells] :
            df = TrendFrame(h, l)
    /\ raw = RawOf(df)
    /\ EMA20 = ema_indicator(df)
    /\ rsi \in RsiSeries([i \in 1..Len(df) |-> df[i].Close])
    /\ StochRSI = stochrsi(rsi)
    /\ NoRun

\* at line 90, with the columns the loop reads drawn row by row
InitSignal ==
    /\ pc = "signal_init"
    /\ \E n \in 1..MaxSignalBars :
        \E ce \in [1..n -> SignalCloseEma], st \in [1..n -> SignalStoch],
           later \in [2..n -> SignalTrends] :
            LET t == [i \in 1..n |-> IF i = 1 THEN "NA" ELSE later[i]]
            IN  /\ PrefixNaN(ce)
                /\ df = [i \in 1..n |->
                            [ts |-> BarTime(i), Open |-> ce[i][1],
                             High |-> LevelAt(t, i) + 10, Low |-> LevelAt(t, i),
                             Close |-> ce[i][1], Volume |-> 500]]
                /\ EMA20 = [i \in 1..n |-> ce[i][2]]
                /\ StochRSI = st
                /\ trends = t
                /\ Trend = t
    /\ raw = RawOf(df)
    /\ rsi = <<>>
    /\ signals = <<>> /\ remarks = <<>>
    /\ enriched = <<>> /\ result = <<>> /\ returned = FALSE /\ raised = FALSE
    /\ latest = <<>> /\ shown = {"title"}
    /\ has_last_refresh = TRUE /\ elapsed = 0 /\ cache = <<>> /\ cache_age = 0
    /\ interactions = 0

--------------------------------------------------------------------------
NextPipeline ==
    \/ ScriptTop \/ RefreshCheck \/ CallFetch \/ DownloadAny \/ Normalize
    \/ Indicators \/ TrendInit \/ TrendStep \/ TrendAssign
    \/ SignalInit \/ SignalStep \/ SignalAssign \/ Select
    \/ UiEmpty \/ UiLatest \/ UiTable

SpecPipeline == InitPipeline /\ [][NextPipeline]_vars

NextRefresh ==
    \/ ScriptTop \/ RefreshCheck \/ CallFetch \/ DownloadSample \/ Normalize
    \/ Indicators \/ TrendInit \/ TrendStep \/ TrendAssign
    \/ SignalInit \/ SignalStep \/ SignalAssign \/ Select
    \/ UiEmpty \/ UiLatest \/ UiTable
    \/ Tick \/ UserInteract

SpecRefresh == InitPipeline /\ [][NextRefresh]_vars

NextTrend == TrendInit \/ TrendStep \/ TrendAssign

SpecTrend == InitTrend /\ [][NextTrend]_vars

NextSignal == SignalInit \/ SignalStep \/ SignalAssign

SpecSignal == InitSignal /\ [][NextSignal]_vars

NextStoch == Indicators

SpecStoch == InitStoch /\ [][NextStoch]_vars

--------------------------------------------------------------------------
(***************************************************************************)
(* Properties.                                                             *)
(***************************************************************************)
HigherHigh(i) == df[i].High # NaN /\ df[i - 1].High # NaN /\ df[i].High > df[i - 1].High
HigherLow(i) == df[i].Low # NaN /\ df[i - 1].Low # NaN /\ df[i].Low > df[i - 1].Low
LowerHigh(i) == df[i].High # NaN /\ df[i - 1].High # NaN /\ df[i].High < df[i - 1].High
LowerLow(i) == df[i].Low # NaN /\ df[i - 1].Low # NaN /\ df[i].Low < df[i - 1].Low

\* C1: in a frame of one row or more, row 0 has trend NA, and every later row
\* is UP exactly when its high and its low are both above those of the row
\* before it, DOWN exactly when both are below, Sideways otherwise: the label
\* is decided by the highs and lows of the row and the row before it alone;
\* the Trend column is the list of these labels, one per row.
C1_TrendRule ==
    /\ \A i \in 1..Len(trends) :
        /\ i <= Len(df) \/ Len(df) = 0
        /\ i = 1 => trends[i] = "NA"
        /\ i > 1 =>
            /\ trends[i] = "UP" <=> (HigherHigh(i) /\ HigherLow(i))
            /\ trends[i] = "DOWN" <=> (LowerHigh(i) /\ LowerLow(i))
            /\ trends[i] = "Sideways" <=>
                   ~(HigherHigh(i) /\ HigherLow(i)) /\ ~(LowerHigh(i) /\ LowerLow(i))
    /\ pc = "signal_init" =>
        /\ Len(df) >= 1
        /\ Trend = trends
        /\ Len(Trend) = Len(df)

C1_Witness ==
    /\ pc = "signal_init"
    /\ Len(Trend) = 3
    /\ Trend[2] = "UP"
    /\ Trend[3] = "DOWN"

Distance100(i) ==
    /\ df[i].Close # NaN
    /\ EMA20[i].d > 0
    /\ Abs(df[i].Close * EMA20[i].d - EMA20[i].n) <= 100 * EMA20[i].d
Below03(i) == StochRSI[i].d > 0 /\ 10 * StochRSI[i].n < 3 * StochRSI[i].d
Above07(i) == StochRSI[i].d > 0 /\ 10 * StochRSI[i].n > 7 * StochRSI[i].d

\* C2: every row gets exactly one signal: CE BUY if and only if its trend is
\* UP, |close - EMA20| <= 100 and StochRSI < 0.3; PE BUY if and only if its
\* trend is DOWN, |close - EMA20| <= 100 and StochRSI > 0.7; NO TRADE in every
\* other case; there are as many signals as rows.
C2_SignalRule ==
    /\ Len(signals) <= Len(df)
    /\ \A i \in 1..Len(signals) :
        /\ signals[i] \in {"CE BUY", "PE BUY", "NO TRADE"}
        /\ signals[i] = "CE BUY" <=> (Trend[i] = "UP" /\ Distance100(i) /\ Below03(i))
        /\ signals[i] = "PE BUY" <=> (Trend[i] = "DOWN" /\ Distance100(i) /\ Above07(i))
        /\ Trend[i] \in {"Sideways", "NA"} => signals[i] = "NO TRADE"
    /\ pc = "select" => Len(signals) = Len(df) /\ Len(enriched) = Len(df)
    /\ \A i \in 1..Len(enriched) : enriched[i].Signal = signals[i]

C2_Witness ==
    /\ pc = "select"
    /\ Len(signals) = 2
    /\ signals[1] = "NO TRADE"
    /\ signals[2] = "PE BUY"
    /\ Trend[2] = "DOWN"

\* the notes a NO TRADE row is due
NotesDue(i) ==
    (IF Trend[i] = "Sideways" THEN {"Market sideways"} ELSE {})
    \cup (IF Trend[i] = "UP" /\ StochRSI[i].d > 0
             /\ 10 * StochRSI[i].n >= 3 * StochRSI[i].d
          THEN {"StochRSI not low for CE"} ELSE {})
    \cup (IF Trend[i] = "DOWN" /\ StochRSI[i].d > 0
             /\ 10 * StochRSI[i].n <= 7 * StochRSI[i].d
          THEN {"StochRSI not high for PE"} ELSE {})
    \cup (IF df[i].Close # NaN /\ EMA20[i].d > 0
             /\ Abs(df[i].Close * EMA20[i].d - EMA20[i].n) > 100 * EMA20[i].d
          THEN {"Price far from EMA20"} ELSE {})

\* text is the "; "-join of the notes of the set due, each once
IsJoinOf(text, due) ==
    /\ Len(text) = (IF due = {} THEN 0 ELSE 2 * Cardinality(due) - 1)
    /\ \A k \in 1..Len(text) : k % 2 = 0 => text[k] = "; "
    /\ {text[k] : k \in {m \in 1..Len(text) : m % 2 = 1}} = due

\* C5: the remark of a NO TRADE row is the "; "-join of exactly the notes
\* whose condition holds for that row (empty when none holds); the remark of
\* a CE BUY row and of a PE BUY row is its fixed text.
C5_RemarkRule ==
    /\ Len(remarks) = Len(signals)
    /\ \A i \in 1..Len(remarks) :
        /\ signals[i] = "NO TRADE" => IsJoinOf(remarks[i], NotesDue(i))
        /\ signals[i] = "CE BUY" => remarks[i] = <<"HH-HL + EMA near + StochRSI < 0.3">>
        /\ signals[i] = "PE BUY" => remarks[i] = <<"LH-LL + EMA near + StochRSI > 0.7">>
    /\ \A i \in 1..Len(enriched) : enriched[i].Remark = remarks[i]

C5_Witness ==
    /\ pc = "select"
    /\ Len(remarks) = 2
    /\ remarks[1] = <<>>
    /\ remarks[2] = <<"Price far from EMA20", "; ", "StochRSI not low for CE">>

\* C8: in a frame of one row or more every StochRSI value is a number from 0
\* to 1, in the first STOCH_WINDOW - 1 rows and where the RSI did not move
\* over the window as well.
C8_StochRange ==
    (pc = "trend_init" /\ Len(df) >= 1) =>
        /\ Len(StochRSI) = Len(df)
        /\ \A i \in 1..Len(StochRSI) :
            /\ StochRSI[i].d > 0
            /\ 0 <= StochRSI[i].n
            /\ StochRSI[i].n <= StochRSI[i].d

FlatWindow(i) == \A j \in (i - STOCH_WINDOW + 1)..i : rsi[j] = rsi[i]

C8_Witness ==
    /\ pc = "trend_init"
    /\ Len(StochRSI) > STOCH_WINDOW
    /\ \E i \in STOCH_WINDOW..Len(rsi) : FlatWindow(i)
    /\ \E i \in STOCH_WINDOW..Len(rsi) :
        0 < StochRSI[i].n /\ StochRSI[i].n < StochRSI[i].d

\* the downloaded row a row of the frame came from
RawRowOf(ts) == CHOOSE j \in 1..Len(raw) : raw[j].ts + IST_OFFSET = ts
HighOrLowAbsent(ts) ==
    IsAbsent(raw[RawRowOf(ts)].High) \/ IsAbsent(raw[RawRowOf(ts)].Low)

\* C10: a row whose High or whose Low was missing or not a number in the
\* download is never labelled UP or DOWN and never gets CE BUY or PE BUY.
C10_AbsentNeverTrades ==
    /\ \A i \in 1..Len(trends) :
        (i <= Len(df) /\ HighOrLowAbsent(df[i].ts)) => trends[i] \in {"NA", "Sideways"}
    /\ \A i \in 1..Len(signals) :
        HighOrLowAbsent(df[i].ts) => signals[i] = "NO TRADE"
    /\ \A k \in 1..Len(result) :
        HighOrLowAbsent(result[k].ts) =>
            result[k].Trend \in {"NA", "Sideways"} /\ result[k].Signal = "NO TRADE"

C10_Witness ==
    /\ pc = "select"
    /\ \E i \in 2..Len(df) :
        /\ IsAbsent(raw[RawRowOf(df[i].ts)].High)
        /\ df[i].High = df[i - 1].High
        /\ df[i].High # NaN
        /\ df[i].Low # NaN /\ df[i - 1].Low # NaN /\ df[i].Low > df[i - 1].Low
        /\ signals[i] = "NO TRADE"

\* no downloaded row falls in the session window 09:15-15:30 (IST)
NoSessionRows ==
    \A j \in 1..Len(raw) :
        \/ TimeOf(raw[j].ts + IST_OFFSET) < SESSION_OPEN
        \/ TimeOf(raw[j].ts + IST_OFFSET) > SESSION_CLOSE

\* C3: when the download is empty, or no row of it is left by the session
\* window, fetch_and_process_data returns an empty frame and raises nothing.
C3_EmptyGivesEmpty ==
    (pc \in Ended /\ NoSessionRows) => (returned /\ ~raised /\ result = <<>>)

AfterNormalize ==
    {"indicators", "trend_init", "trend_loop", "signal_init", "signal_loop", "select"}

\* C6: once the prices are coerced and forward-filled, Open, High, Low and
\* Close of every row are numbers: no NaN is left; Volume is as downloaded.
C6_AllPricesFinite ==
    pc \in AfterNormalize =>
        \A i \in 1..Len(df) :
            /\ df[i].Open # NaN /\ df[i].High # NaN
            /\ df[i].Low # NaN /\ df[i].Close # NaN
            /\ df[i].Volume = raw[RawRowOf(df[i].ts)].Volume

\* the latest calendar date of the enriched frame
LatestDate == CHOOSE d \in {DateOf(enriched[i].ts) : i \in 1..Len(enriched)} :
                 \A i \in 1..Len(enriched) : DateOf(enriched[i].ts) <= d

\* C4: a frame returned with rows in it holds rows of one calendar date, the
\* latest of the enriched frame, holds every enriched row of that date, and
\* runs from the newest row to the oldest, each timestamp above the next.
C4_LatestDayDescending ==
    (returned /\ result # <<>>) =>
        /\ \A k \in 1..Len(result) : DateOf(result[k].ts) = LatestDate
        /\ \A i \in 1..Len(enriched) :
            DateOf(enriched[i].ts) = LatestDate =>
                \E k \in 1..Len(result) :
                    /\ result[k].ts = enriched[i].ts
                    /\ result[k].Trend = enriched[i].Trend
                    /\ result[k].Signal = enriched[i].Signal
                    /\ result[k].Remark = enriched[i].Remark
        /\ \A k \in 1..(Len(result) - 1) : result[k].ts > result[k + 1].ts

C4_Witness ==
    /\ returned
    /\ Len(enriched) = 3
    /\ Len(result) = 2
    /\ result[1].ts > result[2].ts

DataElements == {"metrics", "info", "remark", "alert", "subheader", "table", "download", "caption"}

\* C7: the script reads the latest row only of a frame with rows in it, and
\* the row it reads has the greatest timestamp; on an empty frame it shows
\* the "No data received" error and stops, having rendered no metric, remark,
\* alert, table or download; the alert is shown exactly when the signal of
\* the latest row is CE BUY or PE BUY.
C7_UiReadsLatest ==
    /\ latest # <<>> =>
        /\ returned /\ result # <<>>
        /\ \E k \in 1..Len(result) : result[k] = latest[1]
        /\ \A k \in 1..Len(result) : result[k].ts <= latest[1].ts
    /\ (returned /\ result = <<>>) => (latest = <<>> /\ shown \cap DataElements = {})
    /\ (returned /\ result = <<>> /\ pc \in Ended) => (pc = "stopped" /\ "error" \in shown)
    /\ raised => (latest = <<>> /\ shown \cap DataElements = {})
    /\ pc \in {"ui_table", "done"} =>
        /\ latest # <<>>
        /\ "alert" \in shown <=> latest[1].Signal \in {"CE BUY", "PE BUY"}
    /\ "error" \in shown => (returned /\ result = <<>>)

C7_Witness ==
    /\ pc = "done"
    /\ Len(result) >= 2
    /\ "alert" \in shown
    /\ latest[1].Signal = "CE BUY"

\* C9: with the page loaded and nobody touching it, the script runs again
\* once more than REFRESH_SEC seconds have passed since last_refresh: it is
\* never found at rest MaxWait seconds after the interval has passed.
C9_AutoRefresh ==
    ~(pc \in Ended /\ interactions = 0 /\ elapsed >= REFRESH_SEC + MaxWait)

====
